---- MODULE Spec2Model ----
(***************************************************************************)
(* The create-user form of App.tsx: the zod schema createUserFormSchema    *)
(* (one parser per field, run by zodResolver on submit), the techs field   *)
(* array of useFieldArray, and the submit life cycle of handleSubmit with  *)
(* the awaited storage upload of createUser.                               *)
(*                                                                         *)
(* Strings are sequences of one-character strings, so that trim, split,    *)
(* toLowerCase, endsWith and Number() are computed character by character. *)
(* A field's parse result is a record                                      *)
(*   [status, issues, value]                                               *)
(* status "valid" | "dirty" | "throw": "dirty" carries the issues zod      *)
(* collected (every check and refinement of a chain runs, a failed one     *)
(* does not stop the next), "throw" is a JavaScript exception raised by    *)
(* a callback of the schema, which zod does not catch.                     *)
(***************************************************************************)
EXTENDS Integers, Sequences, FiniteSets, TLC

\* ------------------------------------------------------------ strings

Lowers == <<"a", "b", "c", "h", "o", "t", "m", "i", "l", "g", "r">>
Uppers == <<"A", "B", "C", "H", "O", "T", "M", "I", "L", "G", "R">>

IsLetter(c) == \E i \in 1..Len(Lowers) : c = Lowers[i] \/ c = Uppers[i]

\* String.prototype.toLocaleUpperCase on one character.
toLocaleUpperCase(c) ==
    IF \E i \in 1..Len(Lowers) : c = Lowers[i]
    THEN Uppers[CHOOSE i \in 1..Len(Lowers) : c = Lowers[i]]
    ELSE c

LowerChar(c) ==
    IF \E i \in 1..Len(Uppers) : c = Uppers[i]
    THEN Lowers[CHOOSE i \in 1..Len(Uppers) : c = Uppers[i]]
    ELSE c

\* String.prototype.toLowerCase.
toLowerCase(s) == [i \in 1..Len(s) |-> LowerChar(s[i])]

\* String.prototype.endsWith.
endsWith(s, suffix) ==
    /\ Len(s) >= Len(suffix)
    /\ SubSeq(s, Len(s) - Len(suffix) + 1, Len(s)) = suffix

RECURSIVE TrimStart(_)
TrimStart(s) ==
    IF s # <<>> /\ Head(s) = " " THEN TrimStart(Tail(s)) ELSE s

RECURSIVE TrimEnd(_)
TrimEnd(s) ==
    IF s # <<>> /\ s[Len(s)] = " " THEN TrimEnd(SubSeq(s, 1, Len(s) - 1)) ELSE s

\* String.prototype.trim.
trim(s) == TrimEnd(TrimStart(s))

\* String.prototype.split(sep) for a one-character separator: the pieces
\* between separators, empty pieces kept ("" splits to [""]).
RECURSIVE SplitFrom(_, _, _)
SplitFrom(s, sep, cur) ==
    IF s = <<>> THEN <<cur>>
    ELSE IF Head(s) = sep THEN <<cur>> \o SplitFrom(Tail(s), sep, <<>>)
    ELSE SplitFrom(Tail(s), sep, Append(cur, Head(s)))

split(s, sep) == SplitFrom(s, sep, <<>>)

\* Array.prototype.join(sep).
RECURSIVE join(_, _)
join(words, sep) ==
    IF words = <<>> THEN <<>>
    ELSE IF Len(words) = 1 THEN words[1]
    ELSE words[1] \o <<sep>> \o join(Tail(words), sep)

\* ------------------------------------------------------------ results

Valid(v) == [status |-> "valid", issues |-> <<>>, value |-> v]
Dirty(iss, v) == [status |-> "dirty", issues |-> iss, value |-> v]
Throw == [status |-> "throw", issues |-> <<>>, value |-> <<>>]

Issue(field, index, sub, message) ==
    [field |-> field, index |-> index, sub |-> sub, message |-> message]

\* A chain's result from the issues its checks collected.
Collected(iss, v) == IF iss = <<>> THEN Valid(v) ELSE Dirty(iss, v)

\* ------------------------------------------------------------ numbers

\* A JavaScript number with at most one decimal place kept exactly:
\* num / den, den a power of ten.
Num(n) == [num |-> n, den |-> 1]

NumLeq(a, b) == a.num * b.den <= b.num * a.den
NumGt(a, b) == a.num * b.den > b.num * a.den
IsInteger(a) == a.num % a.den = 0

Digits == <<"0", "1", "2", "3", "4", "5", "6", "7", "8", "9">>

DigitVal(c) == (CHOOSE i \in 1..Len(Digits) : Digits[i] = c) - 1

RECURSIVE DigitsVal(_)
DigitsVal(s) ==
    IF s = <<>> THEN 0
    ELSE 10 * DigitsVal(SubSeq(s, 1, Len(s) - 1)) + DigitVal(s[Len(s)])

RECURSIVE Pow10(_)
Pow10(n) == IF n = 0 THEN 1 ELSE 10 * Pow10(n - 1)

\* Number(raw) for the value of an <input type="number">: the browser keeps
\* it a valid decimal literal or "", and Number("") is 0.
Number(raw) ==
    IF raw = <<>> THEN Num(0)
    ELSE LET neg == Head(raw) = "-"
             body == IF neg THEN Tail(raw) ELSE raw
             parts == split(body, ".")
             int == parts[1]
             frac == IF Len(parts) > 1 THEN parts[2] ELSE <<>>
             mag == DigitsVal(int \o frac)
         IN [num |-> IF neg THEN 0 - mag ELSE mag, den |-> Pow10(Len(frac))]

\* ------------------------------------------------------------ schema

MAX_FILE_SIZE == 5 * 1024 * 1024

ACCEPTED_IMAGE_TYPES == {"image/jpeg", "image/jpg", "image/png", "image/webp"}

\* The messages of the schema, their accents left out.
AvatarRequiredMsg == "A imagem de perfil e obrigatoria"
AvatarSizeMsg == "Tamanho maximo de 5MB"
AvatarTypeMsg == "Formato de imagem invalido"
NameRequiredMsg == "O nome e obrigatorio"
EmailRequiredMsg == "O email e obrigatorio"
EmailFormatMsg == "Formato de email invalido"
EmailSuffixMsg == "O email precisa ser do hotmail"
PasswordMsg == "A senha precisa de no minimo 6 caracteres"
TitleRequiredMsg == "O titulo e obrigatorio"
KnowledgeMinMsg == "Number must be greater than or equal to 1"
KnowledgeMaxMsg == "Number must be less than or equal to 100"
TechsMinMsg == "Insira pelo menos 2 tecnologias"
TechsLearningMsg == "Voce esta aprendendo"

HotmailSuffix == <<"@", "h", "o", "t", "m", "a", "i", "l", ".", "c", "o", "m">>

sizeOkStrict(file) == file.size < MAX_FILE_SIZE

\* The size refinement's test.
sizeOk(file) == file.size <= MAX_FILE_SIZE

\* avatar: the FileList of the file input, a sequence of files. The three
\* refinements all run; the second and third dereference files.item(0)
\* with a non-null assertion, which raises a TypeError on an empty list.
avatarField(files) ==
    LET required == IF files = <<>> THEN <<Issue("avatar", 0, "", AvatarRequiredMsg)>>
                    ELSE <<>>
    IN IF files = <<>> THEN Throw
       ELSE LET file == files[1]
                size == IF sizeOk(file) THEN <<>>
                        ELSE <<Issue("avatar", 0, "", AvatarSizeMsg)>>
                type == IF file.type \in ACCEPTED_IMAGE_TYPES THEN <<>>
                        ELSE <<Issue("avatar", 0, "", AvatarTypeMsg)>>
            IN Collected(required \o size \o type, file)

\* The callback of name's transform: trim, split on " ", upper-case each
\* word's first character, join. word[0] of an empty word is undefined,
\* and undefined.toLocaleUpperCase() raises a TypeError.
nameTransform(name) ==
    LET words == split(trim(name), " ")
    IN IF \E i \in 1..Len(words) : words[i] = <<>>
       THEN Throw
       ELSE Valid(join([i \in 1..Len(words) |->
                          <<toLocaleUpperCase(words[i][1])>>
                              \o SubSeq(words[i], 2, Len(words[i]))], " "))

\* name: nonempty, then the transform (zod skips a transform whose input
\* already has issues).
nameField(name) ==
    IF Len(name) = 0
    THEN Dirty(<<Issue("name", 0, "", NameRequiredMsg)>>, name)
    ELSE nameTransform(name)

\* z.string().email(): atoms separated by dots, "@", a label, then one or
\* more dot-separated alphabetic labels of two letters or more.
IsWord(s) == s # <<>> /\ \A i \in 1..Len(s) : IsLetter(s[i])

IsEmail(s) ==
    LET parts == split(s, "@")
    IN /\ Len(parts) = 2
       /\ LET atoms == split(parts[1], ".")
              labels == split(parts[2], ".")
          IN /\ \A i \in 1..Len(atoms) : IsWord(atoms[i])
             /\ Len(labels) >= 2
             /\ IsWord(labels[1])
             /\ \A i \in 2..Len(labels) : IsWord(labels[i]) /\ Len(labels[i]) >= 2

emailFieldCased(email) ==
    LET required == IF Len(email) = 0
                    THEN <<Issue("email", 0, "", EmailRequiredMsg)>> ELSE <<>>
        format == IF IsEmail(email) THEN <<>>
                  ELSE <<Issue("email", 0, "", EmailFormatMsg)>>
        suffix == IF endsWith(email, HotmailSuffix) THEN <<>>
                  ELSE <<Issue("email", 0, "", EmailSuffixMsg)>>
    IN Collected(required \o format \o suffix, toLowerCase(email))

\* email: nonempty, email, toLowerCase, then the suffix refinement on the
\* lower-cased value; every check runs.
emailField(email) ==
    LET required == IF Len(email) = 0
                    THEN <<Issue("email", 0, "", EmailRequiredMsg)>> ELSE <<>>
        format == IF IsEmail(email) THEN <<>>
                  ELSE <<Issue("email", 0, "", EmailFormatMsg)>>
        lowered == toLowerCase(email)
        suffix == IF endsWith(lowered, HotmailSuffix) THEN <<>>
                  ELSE <<Issue("email", 0, "", EmailSuffixMsg)>>
    IN Collected(required \o format \o suffix, lowered)

MinPasswordLen == 6

passwordField(password) ==
    IF Len(password) >= MinPasswordLen THEN Valid(password)
    ELSE Dirty(<<Issue("password", 0, "", PasswordMsg)>>, password)

MinKnowledge == 1
MaxKnowledge == 100
MinTechs == 2
LearningThreshold == 50

\* One element of techs: title nonempty; knowledge coerced by Number(),
\* then min(1) and max(100).
techIssues(tech, i) ==
    LET k == Number(tech.knowledge)
    IN (IF Len(tech.title) = 0
        THEN <<Issue("techs", i, "title", TitleRequiredMsg)>> ELSE <<>>)
       \o (IF NumLeq(Num(MinKnowledge), k) THEN <<>>
           ELSE <<Issue("techs", i, "knowledge", KnowledgeMinMsg)>>)
       \o (IF NumLeq(k, Num(MaxKnowledge)) THEN <<>>
           ELSE <<Issue("techs", i, "knowledge", KnowledgeMaxMsg)>>)

techValue(tech) == [title |-> tech.title, knowledge |-> Number(tech.knowledge)]

RECURSIVE elementIssues(_, _)
elementIssues(techs, i) ==
    IF i > Len(techs) THEN <<>>
    ELSE techIssues(techs[i], i) \o elementIssues(techs, i + 1)

someAtThreshold(values) ==
    \E i \in 1..Len(values) : ~NumGt(Num(LearningThreshold), values[i].knowledge)

\* The refinement of techs: some entry's knowledge is above 50.
someAboveThreshold(values) ==
    \E i \in 1..Len(values) : NumGt(values[i].knowledge, Num(LearningThreshold))

\* techs: the array's min(2), then each element, then the refinement.
techsField(techs) ==
    LET values == [i \in 1..Len(techs) |-> techValue(techs[i])]
        min == IF Len(techs) >= MinTechs THEN <<>>
               ELSE <<Issue("techs", 0, "", TechsMinMsg)>>
        learning == IF someAboveThreshold(values) THEN <<>>
                    ELSE <<Issue("techs", 0, "", TechsLearningMsg)>>
    IN Collected(min \o elementIssues(techs, 1) \o learning, values)

\* createUserFormSchema parsed on the form's values: the fields in the
\* order of the object's shape. An exception in any field rejects the
\* whole parse.
parse(values) ==
    LET a == avatarField(values.avatar)
        n == nameField(values.name)
        e == emailField(values.email)
        p == passwordField(values.password)
        t == techsField(values.techs)
        all == <<a, n, e, p, t>>
        issues == a.issues \o n.issues \o e.issues \o p.issues \o t.issues
    IN IF \E i \in 1..5 : all[i].status = "throw" THEN Throw
       ELSE Collected(issues, [avatar |-> a.value, name |-> n.value,
                               email |-> e.value, password |-> p.value,
                               techs |-> t.value])

\* zodResolver's error for a path: the message of the first issue there,
\* "" when there is none.
errorMessage(issues, field, index, sub) ==
    LET at == SelectSeq(issues, LAMBDA x :
                  x.field = field /\ x.index = index /\ x.sub = sub)
    IN IF at = <<>> THEN "" ELSE at[1].message


\* ------------------------------------------------------------ the form

VARIABLES
    avatar,        \* the file input's FileList
    name,          \* the text inputs' values
    email,
    password,
    fields,        \* useFieldArray's rows: [id, title, knowledge]
    nextId,        \* source of generateId's fresh identities
    isSubmitting,  \* formState.isSubmitting
    validating,    \* resolver promises not yet settled, each with the
                   \*   result parse gives for the values it was started on
    pending,       \* data of createUser calls awaiting the upload
    output,        \* the <pre>: "" or "json" once setOutput has run (the
                   \*   text of JSON.stringify(data) is read by nothing)
    lastResult,    \* how the last resolver run ended
    arg,           \* a schema field's input and result, for the
    res            \*   specification of the schema alone

vars == <<avatar, name, email, password, fields, nextId, isSubmitting,
          validating, pending, output, lastResult, arg, res>>

inputs == <<avatar, name, email, password>>
submitState == <<isSubmitting, validating, pending, output, lastResult>>

\* The longest techs list explored.
MaxTechs == 2

NotRun == [status |-> "none", issues |-> <<>>, value |-> <<>>]
NoArg == [field |-> "none", input |-> <<>>]

PngFile == [name |-> "me.png", size |-> MAX_FILE_SIZE, type |-> "image/png"]

FormAvatars == {<<>>, <<PngFile>>}
FormNames == {<<>>, <<"a", "b">>}
FormEmails == {<<>>, <<"A", "@", "H", "o", "t", "m", "a", "i", "l", ".", "c", "o", "m">>}
FormPasswords == {<<>>, <<"a", "b", "c", "a", "b", "c">>}
FormTitles == {<<>>, <<"t">>}
FormKnowledge == {<<"0">>, <<"5", "0">>, <<"5", "1">>, <<"5", "0", ".", "5">>}

\* The value addNewTech appends. The code passes the number 0; it is kept
\* here as the text the row's number input shows, which Number() coerces
\* to the same 0.
DefaultTech == [title |-> <<>>, knowledge |-> <<"0">>]

\* generateId: an identity no row has had.
generateId == nextId

prepend(rows, value, id) ==
    <<[id |-> id, title |-> value.title, knowledge |-> value.knowledge]>> \o rows

\* useFieldArray's append: the value, under a new identity, after the rows.
append(rows, value, id) ==
    Append(rows, [id |-> id, title |-> value.title, knowledge |-> value.knowledge])

\* The form's values as handleSubmit hands them to the resolver.
formValues ==
    [avatar |-> avatar, name |-> name, email |-> email, password |-> password,
     techs |-> [i \in 1..Len(fields) |->
                  [title |-> fields[i].title, knowledge |-> fields[i].knowledge]]]

\* The browser's own validation of <input type="email">: empty, or
\* a local part of letters and dots, "@", dot-separated labels.
IsHtmlEmail(s) ==
    \/ s = <<>>
    \/ LET parts == split(s, "@")
       IN /\ Len(parts) = 2
          /\ parts[1] # <<>>
          /\ \A i \in 1..Len(parts[1]) : IsLetter(parts[1][i]) \/ parts[1][i] = "."
          /\ LET labels == split(parts[2], ".")
             IN \A i \in 1..Len(labels) : IsWord(labels[i])

\* The browser's own validation of <input type="number"> with the default
\* step of 1: empty, or a whole number.
IsHtmlStep(raw) == raw = <<>> \/ IsInteger(Number(raw))

checkValidityAnyStep == IsHtmlEmail(email)

\* The form has no noValidate: the browser fires the submit event only
\* when every control satisfies its constraints.
checkValidity ==
    /\ IsHtmlEmail(email)
    /\ \A i \in 1..Len(fields) : IsHtmlStep(fields[i].knowledge)

neverDisabled == FALSE

\* The submit button's disabled attribute.
disabled == isSubmitting

keptSubmitting == isSubmitting

\* isSubmitting as handleSubmit's finally block leaves it.
finallySubmitting == FALSE

\* Promise callbacks run to completion before the next user event.
idleLoop == validating = <<>>

Init ==
    /\ avatar = <<>>
    /\ name = <<>>
    /\ email = <<>>
    /\ password = <<>>
    /\ fields = <<>>
    /\ nextId = 1
    /\ isSubmitting = FALSE
    /\ validating = <<>>
    /\ pending = <<>>
    /\ output = ""
    /\ lastResult = "none"
    /\ arg = NoArg
    /\ res = NotRun

\* register("avatar") / ("name") / ("email") / ("password"): onChange.
ChangeAvatar(files) ==
    /\ idleLoop
    /\ avatar' = files
    /\ UNCHANGED <<name, email, password, fields, nextId, submitState, arg, res>>

ChangeName(v) ==
    /\ idleLoop
    /\ name' = v
    /\ UNCHANGED <<avatar, email, password, fields, nextId, submitState, arg, res>>

ChangeEmail(v) ==
    /\ idleLoop
    /\ email' = v
    /\ UNCHANGED <<avatar, name, password, fields, nextId, submitState, arg, res>>

ChangePassword(v) ==
    /\ idleLoop
    /\ password' = v
    /\ UNCHANGED <<avatar, name, email, fields, nextId, submitState, arg, res>>

\* register(`techs.${index}.title`) / (`techs.${index}.knowledge`): onChange.
ChangeTitle(i, v) ==
    /\ idleLoop
    /\ i \in 1..Len(fields)
    /\ fields' = [fields EXCEPT ![i].title = v]
    /\ UNCHANGED <<inputs, nextId, submitState, arg, res>>

ChangeKnowledge(i, v) ==
    /\ idleLoop
    /\ i \in 1..Len(fields)
    /\ fields' = [fields EXCEPT ![i].knowledge = v]
    /\ UNCHANGED <<inputs, nextId, submitState, arg, res>>

\* The "Adicionar" button.
addNewTech ==
    /\ idleLoop
    /\ Len(fields) < MaxTechs
    /\ fields' = append(fields, DefaultTech, generateId)
    /\ nextId' = nextId + 1
    /\ UNCHANGED <<inputs, submitState, arg, res>>

\* The "Salvar" button or Enter in a text input: handleSubmit raises
\* isSubmitting and starts the resolver on the current values.
handleSubmit ==
    /\ idleLoop
    /\ ~disabled
    /\ checkValidity
    /\ isSubmitting' = TRUE
    /\ validating' = Append(validating, parse(formValues))
    /\ UNCHANGED <<inputs, fields, nextId, pending, output, lastResult, arg, res>>

\* The resolver settles. Valid: createUser is called with the parsed data
\* and awaits the upload. Issues or an exception: handleSubmit ends, its
\* finally block clearing isSubmitting.
resolverSettled ==
    /\ validating # <<>>
    /\ LET r == Head(validating)
       IN /\ validating' = Tail(validating)
          /\ lastResult' = r.status
          /\ IF r.status = "valid"
             THEN /\ pending' = Append(pending, r.value)
                  /\ UNCHANGED isSubmitting
             ELSE /\ isSubmitting' = finallySubmitting
                  /\ UNCHANGED pending
    /\ UNCHANGED <<inputs, fields, nextId, output, arg, res>>

UploadOutcomes == {"stored", "error", "rejected"}

\* The upload settles. It resolves (stored, or with an error object the
\* code does not look at) and createUser sets the output; or it rejects
\* and createUser ends there. Either way handleSubmit's finally block runs.
uploadSettled(outcome) ==
    /\ idleLoop
    /\ pending # <<>>
    /\ pending' = Tail(pending)
    /\ output' = IF outcome = "rejected" THEN output ELSE "json"
    /\ isSubmitting' = finallySubmitting
    /\ UNCHANGED <<inputs, fields, nextId, validating, lastResult, arg, res>>

Next ==
    \/ \E v \in FormAvatars : ChangeAvatar(v)
    \/ \E v \in FormNames : ChangeName(v)
    \/ \E v \in FormEmails : ChangeEmail(v)
    \/ \E v \in FormPasswords : ChangePassword(v)
    \/ \E i \in 1..MaxTechs, v \in FormTitles : ChangeTitle(i, v)
    \/ \E i \in 1..MaxTechs, v \in FormKnowledge : ChangeKnowledge(i, v)
    \/ addNewTech
    \/ handleSubmit
    \/ resolverSettled
    \/ \E o \in UploadOutcomes : uploadSettled(o)

Spec == Init /\ [][Next]_vars

\* The resolver's promise callbacks always run; the upload is taken to
\* settle.
FairSpec ==
    /\ Spec
    /\ WF_vars(resolverSettled)
    /\ WF_vars(\E o \in UploadOutcomes : uploadSettled(o))

\* ------------------------------------------------------------ the schema
\* alone: one field's parser applied to one input

\* The longest name explored.
MaxNameLen == 4

NameChars == {"a", "B", " "}

RECURSIVE SeqsUpTo(_, _)
SeqsUpTo(S, n) ==
    IF n = 0 THEN {<<>>}
    ELSE LET shorter == SeqsUpTo(S, n - 1)
         IN shorter \cup {Append(q, x) : q \in shorter, x \in S}

NameInputs == SeqsUpTo(NameChars, MaxNameLen)

Sizes == {0, MAX_FILE_SIZE - 1, MAX_FILE_SIZE, MAX_FILE_SIZE + 1, 6 * 1024 * 1024}
Types == ACCEPTED_IMAGE_TYPES \cup {"image/gif", "application/pdf", ""}

AvatarInputs ==
    {<<>>} \cup {<<[name |-> "me", size |-> sz, type |-> ty]>> : sz \in Sizes, ty \in Types}

Locals == {<<>>, <<"a">>, <<"A", "b">>}
Ats == {<<>>, <<"@">>}
Hosts == {<<>>, <<"h", "o", "t", "m", "a", "i", "l">>,
          <<"H", "O", "T", "M", "A", "I", "L">>,
          <<"H", "o", "t", "m", "a", "i", "l">>,
          <<"g", "m", "a", "i", "l">>,
          <<"a", "@", "h", "o", "t", "m", "a", "i", "l">>}
Tlds == {<<>>, <<".", "c", "o", "m">>, <<".", "C", "O", "M">>,
         <<".", "c", "o", "m", ".", "b", "r">>}

EmailInputs == {l \o a \o h \o t : l \in Locals, a \in Ats, h \in Hosts, t \in Tlds}

PasswordInputs == {SubSeq(<<"a", "b", "c", "a", "b", "c", "a">>, 1, n) : n \in 0..7}

SchemaTitles == {<<>>, <<"t">>}
SchemaKnowledge == {<<>>, <<"0">>, <<"1">>, <<"5", "0">>, <<"5", "1">>,
                    <<"5", "0", ".", "5">>, <<"1", "0", "0">>, <<"1", "0", "1">>}

TechsInputs == SeqsUpTo([title : SchemaTitles, knowledge : SchemaKnowledge], MaxTechs)

SchemaInit ==
    /\ avatar = <<>>
    /\ name = <<>>
    /\ email = <<>>
    /\ password = <<>>
    /\ fields = <<>>
    /\ nextId = 1
    /\ isSubmitting = FALSE
    /\ validating = <<>>
    /\ pending = <<>>
    /\ output = ""
    /\ lastResult = "none"
    /\ res = NotRun
    /\ \/ \E x \in AvatarInputs : arg = [field |-> "avatar", input |-> x]
       \/ \E x \in NameInputs : arg = [field |-> "name", input |-> x]
       \/ \E x \in EmailInputs : arg = [field |-> "email", input |-> x]
       \/ \E x \in PasswordInputs : arg = [field |-> "password", input |-> x]
       \/ \E x \in TechsInputs : arg = [field |-> "techs", input |-> x]

formState == <<avatar, name, email, password, fields, nextId, isSubmitting,
               validating, pending, output, lastResult>>

parseField(field, result) ==
    /\ arg.field = field
    /\ res.status = "none"
    /\ res' = result
    /\ UNCHANGED <<formState, arg>>

parseAvatar == parseField("avatar", avatarField(arg.input))
parseName == parseField("name", nameField(arg.input))
parseEmail == parseField("email", emailField(arg.input))
parsePassword == parseField("password", passwordField(arg.input))
parseTechs == parseField("techs", techsField(arg.input))

SchemaNext ==
    \/ parseAvatar
    \/ parseName
    \/ parseEmail
    \/ parsePassword
    \/ parseTechs

SchemaSpec == SchemaInit /\ [][SchemaNext]_vars

\* ------------------------------------------------------------ properties

emailMessage == errorMessage(res.issues, "email", 0, "")
techsMessage == errorMessage(res.issues, "techs", 0, "")
hasMessage(m) == \E i \in 1..Len(res.issues) : res.issues[i].message = m
ran(field) == arg.field = field /\ res.status # "none"

\* C1: running the schema validator never raises an exception, whatever
\* the user entered: every resolver run ends with the parsed data or with
\* issues.
C1_ValidatorNeverThrows == lastResult # "throw"

\* C2: createUser is only ever called with data whose techs has at least
\* 2 entries, one of them with knowledge above 50, each with a non-empty
\* title and a whole knowledge from 1 to 100, whatever the rows hold
\* while they are edited.
C2_CallbackData ==
    \A c \in 1..Len(pending) :
        LET techs == pending[c].techs
        IN /\ Len(techs) >= 2
           /\ \E i \in 1..Len(techs) : NumGt(techs[i].knowledge, Num(50))
           /\ \A i \in 1..Len(techs) :
                /\ Len(techs[i].title) > 0
                /\ IsInteger(techs[i].knowledge)
                /\ NumLeq(Num(1), techs[i].knowledge)
                /\ NumLeq(techs[i].knowledge, Num(100))

\* createUser holds data with an entry at 50 while a row on the screen has
\* been edited to a value the schema rejects.
C2_Witness ==
    /\ Len(pending) = 1
    /\ \E i \in 1..Len(pending[1].techs) : pending[1].techs[i].knowledge = Num(50)
    /\ \E i \in 1..Len(fields) : fields[i].title = <<>>

\* C3: for every non-empty name, the name transform returns the words of
\* the trimmed name, each with its first letter upper-cased and the rest
\* unchanged, joined by single spaces.
Capitalized(word) == <<toLocaleUpperCase(word[1])>> \o SubSeq(word, 2, Len(word))

ExpectedName(n) ==
    LET words == SelectSeq(split(trim(n), " "), LAMBDA w : w # <<>>)
    IN join([i \in 1..Len(words) |-> Capitalized(words[i])], " ")

C3_NameTransform ==
    (ran("name") /\ arg.input # <<>>) =>
        (res.status = "valid" /\ res.value = ExpectedName(arg.input))

\* C4 as claimed: every email that does not end in "@hotmail.com" once
\* lower-cased fails validation and the message reported for the field is
\* the suffix message; one that ends in it does not get that message.
C4_SuffixMessageAlways ==
    ran("email") =>
        IF endsWith(toLowerCase(arg.input), HotmailSuffix)
        THEN emailMessage # EmailSuffixMsg
        ELSE res.status = "dirty" /\ emailMessage = EmailSuffixMsg

\* C4 as amended: every email that does not end in "@hotmail.com" once
\* lower-cased fails validation with the suffix issue among the field's
\* issues; the message reported for the field is the suffix message when
\* the input is a non-empty, well-formed address, and the earlier check's
\* message (required, then format) otherwise. An email that ends in the
\* suffix, in any letter case, never gets the suffix message.
C4_SuffixMessage ==
    ran("email") =>
        IF endsWith(toLowerCase(arg.input), HotmailSuffix)
        THEN ~hasMessage(EmailSuffixMsg)
        ELSE /\ res.status = "dirty"
             /\ hasMessage(EmailSuffixMsg)
             /\ emailMessage =
                  IF arg.input = <<>> THEN EmailRequiredMsg
                  ELSE IF ~IsEmail(arg.input) THEN EmailFormatMsg
                  ELSE EmailSuffixMsg

\* A well-formed address with upper-case letters and another domain got
\* the suffix message.
C4_Witness ==
    /\ ran("email")
    /\ arg.input = <<"A", "b", "@", "g", "m", "a", "i", "l", ".", "C", "O", "M">>
    /\ emailMessage = EmailSuffixMsg

\* C5: for a selected file, a size of exactly 5MB passes the size rule and
\* a larger one fails it with the size message; a type outside the
\* accepted ones fails the type rule with the format message whatever the
\* size.
C5_AvatarRules ==
    (ran("avatar") /\ arg.input # <<>>) =>
        LET file == arg.input[1]
        IN /\ file.size = 5 * 1024 * 1024 => ~hasMessage(AvatarSizeMsg)
           /\ file.size > 5 * 1024 * 1024 =>
                (res.status = "dirty" /\ hasMessage(AvatarSizeMsg))
           /\ file.type \notin {"image/jpeg", "image/jpg", "image/png", "image/webp"} =>
                (res.status = "dirty" /\ hasMessage(AvatarTypeMsg))

\* A 5MB png passed.
C5_Witness ==
    /\ ran("avatar")
    /\ arg.input = <<[name |-> "me", size |-> 5 * 1024 * 1024, type |-> "image/png"]>>
    /\ res.status = "valid"

\* C6: the collection-level error of techs is decided by the array's
\* length and knowledge values: fewer than 2 entries gives the
\* minimum-count message even with an entry above 50; 2 or more entries
\* none above 50 gives the learning message; an entry above 50 (51 is)
\* passes that rule.
C6_TechsMessage ==
    ran("techs") =>
        LET techs == arg.input
            above == \E i \in 1..Len(techs) : NumGt(Number(techs[i].knowledge), Num(50))
        IN techsMessage =
             IF Len(techs) < 2 THEN TechsMinMsg
             ELSE IF above THEN "" ELSE TechsLearningMsg

\* Two entries at 50 and 51 passed both collection rules.
C6_Witness ==
    /\ ran("techs")
    /\ Len(arg.input) = 2
    /\ arg.input[1].knowledge = <<"5", "0">>
    /\ arg.input[2].knowledge = <<"5", "1">>
    /\ techsMessage = ""

\* C7: addNewTech lengthens the list by one, the new row is last, holds
\* the default title "" and knowledge 0 and has an identity no row had,
\* and the rows that were there keep their places, values and identities.
C7_AppendFrame ==
    [][addNewTech =>
        /\ Len(fields') = Len(fields) + 1
        /\ fields'[Len(fields')].title = <<>>
        /\ Number(fields'[Len(fields')].knowledge) = Num(0)
        /\ \A i \in 1..Len(fields) : fields'[Len(fields')].id # fields[i].id
        /\ \A i \in 1..Len(fields) : fields'[i] = fields[i]
      ]_vars

\* A default row was appended after a row the user had filled in.
C7_Witness ==
    /\ Len(fields) = 2
    /\ fields[1].title = <<"t">>
    /\ fields[1].knowledge = <<"5", "1">>
    /\ fields[2].title = <<>>
    /\ fields[2].knowledge = <<"0">>

\* C8: the list offers the user a remove(index): whenever there are rows,
\* the user can take a step that deletes one.
C8_RemoveOffered ==
    Len(fields) >= 1 => ENABLED (Next /\ Len(fields') < Len(fields))

\* C9: while a submit is unresolved no second one is accepted: at most one
\* submit is being validated or uploaded at any time, so createUser is
\* not entered again and at most one store call is in flight, and
\* isSubmitting is up for as long as it lasts.
C9_NoResubmit ==
    /\ Len(validating) + Len(pending) <= 1
    /\ (validating # <<>> \/ pending # <<>>) => isSubmitting

\* An upload is pending while the form on the screen would pass.
C9_Witness ==
    /\ Len(pending) = 1
    /\ checkValidity
    /\ parse(formValues).status = "valid"

\* C10: every submit that raised isSubmitting leaves it: validation
\* failing, the upload resolving or the upload rejecting, isSubmitting
\* clears and a new submit is accepted.
C10_SubmittingEnds ==
    isSubmitting ~> (~disabled /\ validating = <<>> /\ pending = <<>>)

\* A submit went through the upload and the form accepts a submit again.
C10_Witness ==
    /\ output = "json"
    /\ lastResult = "valid"
    /\ ~isSubmitting
    /\ pending = <<>>

====
